---- MODULE Spec2Model ----
(***************************************************************************)
(* rcan: signed capability-delegation tokens (src/src/lib.rs).             *)
(*                                                                         *)
(* Wire data is a sequence of units.  A unit is a one-field record whose   *)
(* field name is its kind: [b |-> n] a plain byte (tags, varints, the      *)
(* version), [key |-> k] the 32 bytes of a verifying key, [R |-> n] and    *)
(* [s |-> x] the two 32-byte halves of an Ed25519 signature, [dst |-> 0]   *)
(* the domain separation tag.                                              *)
(*                                                                         *)
(* Signatures are ideal: the s half made by key holder k with nonce        *)
(* commitment R over message m is the record [signer |-> k, R |-> R,       *)
(* msg |-> m], and nobody but the holder of k can make it.                 *)
(***************************************************************************)
EXTENDS Integers, Sequences, FiniteSets, TLC

VARIABLES
    clock,        \* SystemTime::now(), in ticks since UNIX_EPOCH
    identity,     \* Authorizer.identity
    proof_chain,  \* the proof chain handed to check_invocation_from
    made,         \* custody and lifetime scenarios: for each proof of the chain,
                  \* how it was obtained, who made its signature and when
    call,         \* the last check_invocation_from call and its result
    rcan,         \* the token the builder produced
    bytes,        \* token bytes in flight
    decoded,      \* what was obtained from the bytes, and how
    phase         \* position of the codec scenario

vars == <<clock, identity, proof_chain, made, call, rcan, bytes, decoded, phase>>

None == [tag |-> "None"]

----------------------------------------------------------------------------
(* Bounds *)

\* Largest unix timestamp (seconds) an Expires::At carries.
MaxSecs == 1
\* Clock resolution: ticks per second (SystemTime has sub-second precision).
TicksPerSec == 2
\* Longest proof chain presented.
MaxChain == 2
\* Most units appended after a token's signature on the wire.
MaxTrailing == 1
\* Last tick of the clock in the lifetime scenario.
MaxClock == 4
\* Longest Duration handed to Expires::valid_for, in ticks.
MaxDuration == 2

----------------------------------------------------------------------------
(* Program constants *)

VERSION == 1
\* SIGNATURE_LENGTH is 64 bytes: two 32-byte units (R and s).
SIGNATURE_LENGTH == 2
\* postcard writes a VerifyingKey as a length-prefixed byte string: 0x20.
KeyLenPrefix == 32

DST == << [dst |-> 0] >>

Keys == {"service", "alice", "bob"}
\* 32 bytes that do not decompress to a curve point.
BadPoint == "not-a-point"

\* The test module's capability type.
Rpc == {"Read", "ReadWrite", "All"}

permits(self, other) ==
    CASE self = "All" -> TRUE
      [] self = "ReadWrite" -> other \in {"ReadWrite", "Read"}
      [] self = "Read" -> other = "Read"

----------------------------------------------------------------------------
(* Expires *)

Never == [tag |-> "Never"]
At(t) == [tag |-> "At", at |-> t]

as_secs(ticks) == ticks \div TicksPerSec

\* Expires::valid_for, called when the clock shows now.
valid_for(now, duration) == At(as_secs(now + duration))

\* is_valid_at with the comparison turned round.
is_valid_at_reversed(self, time) ==
    IF self.tag = "Never" THEN TRUE ELSE self.at <= as_secs(time)

\* is_valid_at with a strict comparison.
is_valid_at_wrong(self, time) ==
    IF self.tag = "Never" THEN TRUE ELSE self.at > as_secs(time)

is_valid_at(self, time) ==
    LET secs == as_secs(time)
    IN  IF self.tag = "Never" THEN TRUE ELSE self.at >= secs

----------------------------------------------------------------------------
(* Ed25519, ideal *)

\* An Ed25519 signature with nonce commitment r, made by the holder of key k.
SignWith(k, r, msg) ==
    << [R |-> r], [s |-> [signer |-> k, R |-> r, msg |-> msg]] >>

\* SigningKey::sign: the nonce is derived from the key and the message.
Sign(k, msg) == SignWith(k, 0, msg)

\* verify_strict that looks at the signer only, not at the message.
verify_strict_any_message(pk, msg, signature) ==
    /\ "R" \in DOMAIN signature[1]
    /\ "s" \in DOMAIN signature[2]
    /\ signature[2].s.signer = pk

\* VerifyingKey::verify_strict: signature is two arbitrary 32-byte units.
verify_strict(pk, msg, signature) ==
    /\ "R" \in DOMAIN signature[1]
    /\ signature[2] = [s |-> [signer |-> pk, R |-> signature[1].R, msg |-> msg]]

----------------------------------------------------------------------------
(* CapabilityOrigin, Payload, Rcan *)

Issuer == [tag |-> "Issuer"]
Delegation(root) == [tag |-> "Delegation", root |-> root]

Payload(issuer, audience, capability_origin, capability, valid_until) ==
    [issuer |-> issuer, audience |-> audience,
     capability_origin |-> capability_origin,
     capability |-> capability, valid_until |-> valid_until]

\* capability_issuer that disregards the stored root.
capability_issuer_always_issuer(self) == self.payload.issuer

\* Rcan::capability_issuer
capability_issuer(self) ==
    IF self.payload.capability_origin.tag = "Issuer"
    THEN self.payload.issuer
    ELSE self.payload.capability_origin.root

----------------------------------------------------------------------------
(* postcard encoding *)

EncodeKey(k) == << [b |-> KeyLenPrefix], [key |-> k] >>

EncodeOrigin(o) ==
    IF o.tag = "Issuer" THEN << [b |-> 0] >> ELSE << [b |-> 1] >> \o EncodeKey(o.root)

\* Unit variants of the Rpc enum are written as their index.
RpcIndex(c) == CASE c = "Read" -> 0 [] c = "ReadWrite" -> 1 [] c = "All" -> 2

EncodeExpires(e) ==
    IF e.tag = "Never" THEN << [b |-> 0] >> ELSE << [b |-> 1], [b |-> e.at] >>

EncodePayload(p) ==
    EncodeKey(p.issuer) \o EncodeKey(p.audience) \o EncodeOrigin(p.capability_origin)
        \o << [b |-> RpcIndex(p.capability)] >> \o EncodeExpires(p.valid_until)

\* postcard::to_extend(self, start): Rcan is payload then signature.
EncodeRcan(self) == EncodePayload(self.payload) \o self.signature

\* Rcan::encode
encode(self) == << [b |-> VERSION] >> \o EncodeRcan(self)

----------------------------------------------------------------------------
(* postcard decoding: each parser reads at position i and says where it stopped *)

Fail == [ok |-> FALSE]

ParseKey(bs, i) ==
    IF /\ i + 1 <= Len(bs)
       /\ bs[i] = [b |-> KeyLenPrefix]
       /\ "key" \in DOMAIN bs[i + 1]
       /\ bs[i + 1].key \in Keys
    THEN [ok |-> TRUE, val |-> bs[i + 1].key, next |-> i + 2]
    ELSE Fail

ParseOrigin(bs, i) ==
    IF i > Len(bs) THEN Fail
    ELSE IF bs[i] = [b |-> 0] THEN [ok |-> TRUE, val |-> Issuer, next |-> i + 1]
    ELSE IF bs[i] = [b |-> 1]
         THEN LET k == ParseKey(bs, i + 1)
              IN  IF k.ok THEN [ok |-> TRUE, val |-> Delegation(k.val), next |-> k.next]
                  ELSE Fail
    ELSE Fail

ParseRpc(bs, i) ==
    IF i > Len(bs) THEN Fail
    ELSE IF \E c \in Rpc : bs[i] = [b |-> RpcIndex(c)]
         THEN [ok |-> TRUE,
               val |-> CHOOSE c \in Rpc : bs[i] = [b |-> RpcIndex(c)],
               next |-> i + 1]
    ELSE Fail

ParseExpires(bs, i) ==
    IF i > Len(bs) THEN Fail
    ELSE IF bs[i] = [b |-> 0] THEN [ok |-> TRUE, val |-> Never, next |-> i + 1]
    ELSE IF bs[i] = [b |-> 1] /\ i + 1 <= Len(bs) /\ "b" \in DOMAIN bs[i + 1]
         THEN [ok |-> TRUE, val |-> At(bs[i + 1].b), next |-> i + 2]
    ELSE Fail

\* A Signature is any 64 bytes.
ParseSignature(bs, i) ==
    IF i + SIGNATURE_LENGTH - 1 <= Len(bs)
    THEN [ok |-> TRUE, val |-> SubSeq(bs, i, i + SIGNATURE_LENGTH - 1),
          next |-> i + SIGNATURE_LENGTH]
    ELSE Fail

\* postcard::from_bytes::<Rcan<Rpc>>: bytes left over after the value are ignored.
from_bytes(bs) ==
    LET iss == ParseKey(bs, 1) IN
    IF ~iss.ok THEN Fail ELSE
    LET aud == ParseKey(bs, iss.next) IN
    IF ~aud.ok THEN Fail ELSE
    LET org == ParseOrigin(bs, aud.next) IN
    IF ~org.ok THEN Fail ELSE
    LET cap == ParseRpc(bs, org.next) IN
    IF ~cap.ok THEN Fail ELSE
    LET exp == ParseExpires(bs, cap.next) IN
    IF ~exp.ok THEN Fail ELSE
    LET sig == ParseSignature(bs, exp.next) IN
    IF ~sig.ok THEN Fail ELSE
    [ok |-> TRUE,
     val |-> [payload |-> Payload(iss.val, aud.val, org.val, cap.val, exp.val),
              signature |-> sig.val]]

----------------------------------------------------------------------------
(* RcanBuilder and Rcan::decode *)

Ok(r) == [tag |-> "Ok", rcan |-> r]
Err(e) == [tag |-> "Err", error |-> e]
Panic == [tag |-> "Panic"]

issuing_builder(issuer, audience, capability) ==
    [issuer |-> issuer, audience |-> audience,
     capability_origin |-> Issuer, capability |-> capability]

delegating_builder(issuer, audience, owner, capability) ==
    [issuer |-> issuer, audience |-> audience,
     capability_origin |-> Delegation(owner), capability |-> capability]

\* sign over the encoded payload alone, without the DST prefix.
sign_without_dst(self, valid_until) ==
    LET payload == Payload(self.issuer, self.audience, self.capability_origin,
                           self.capability, valid_until)
    IN  [payload |-> payload, signature |-> Sign(self.issuer, EncodePayload(payload))]

\* RcanBuilder::sign; self.issuer is the signing key, named by its verifying key.
sign(self, valid_until) ==
    LET payload == Payload(self.issuer, self.audience, self.capability_origin,
                           self.capability, valid_until)
        to_sign == DST \o EncodePayload(payload)
    IN  [payload |-> payload, signature |-> Sign(self.issuer, to_sign)]

\* decode without the signature verification.
decode_unverified(bs) ==
    IF bs = << >> THEN Err("Empty")
    ELSE IF bs[1] # [b |-> VERSION] THEN Err("Version")
    ELSE LET parsed == from_bytes(Tail(bs)) IN
         IF ~parsed.ok THEN Err("Decoding")
         ELSE IF Len(bs) - SIGNATURE_LENGTH < 1 THEN Panic
         ELSE Ok(parsed.val)

\* decode that parses before it looks at the version byte.
decode_parse_first(bs) ==
    IF bs = << >> THEN Err("Empty")
    ELSE LET parsed == from_bytes(Tail(bs)) IN
         IF ~parsed.ok THEN Err("Decoding")
         ELSE IF bs[1] # [b |-> VERSION] THEN Err("Version")
         ELSE IF Len(bs) - SIGNATURE_LENGTH < 1 THEN Panic
         ELSE LET signed == DST \o SubSeq(bs, 2, Len(bs) - SIGNATURE_LENGTH) IN
              IF verify_strict(parsed.val.payload.issuer, signed, parsed.val.signature)
              THEN Ok(parsed.val)
              ELSE Err("Signature")

\* Rcan::decode
decode(bs) ==
    IF bs = << >> THEN Err("Empty")
    ELSE IF bs[1] # [b |-> VERSION] THEN Err("Version")
    ELSE LET parsed == from_bytes(Tail(bs)) IN
         IF ~parsed.ok THEN Err("Decoding")
         ELSE IF Len(bs) - SIGNATURE_LENGTH < 1 THEN Panic
         ELSE LET signed == DST \o SubSeq(bs, 2, Len(bs) - SIGNATURE_LENGTH) IN
              IF verify_strict(parsed.val.payload.issuer, signed, parsed.val.signature)
              THEN Ok(parsed.val)
              ELSE Err("Signature")

----------------------------------------------------------------------------
(* Authorizer *)

\* The loop of check_invocation_from and the check after it.
RECURSIVE walk(_, _, _, _, _, _)
walk(self_identity, now, invoker, capability, proofs, current_issuer_target) ==
    IF proofs = << >>
    THEN IF invoker = current_issuer_target THEN "Ok" ELSE "WrongInvoker"
    ELSE LET proof == Head(proofs) IN
         IF proof.payload.issuer # current_issuer_target THEN "IssuerMismatch"
         ELSE IF ~is_valid_at(proof.payload.valid_until, now) THEN "Expired"
         ELSE IF capability_issuer(proof) # self_identity THEN "MissingDelegation"
         ELSE IF ~permits(proof.payload.capability, capability) THEN "NotPermitted"
         ELSE walk(self_identity, now, invoker, capability, Tail(proofs),
                   proof.payload.audience)

\* The loop without the cursor moving on to the audience.
RECURSIVE walk_cursor_stuck(_, _, _, _, _, _)
walk_cursor_stuck(self_identity, now, invoker, capability, proofs, current_issuer_target) ==
    IF proofs = << >>
    THEN IF invoker = current_issuer_target THEN "Ok" ELSE "WrongInvoker"
    ELSE LET proof == Head(proofs) IN
         IF proof.payload.issuer # current_issuer_target THEN "IssuerMismatch"
         ELSE IF ~is_valid_at(proof.payload.valid_until, now) THEN "Expired"
         ELSE IF capability_issuer(proof) # self_identity THEN "MissingDelegation"
         ELSE IF ~permits(proof.payload.capability, capability) THEN "NotPermitted"
         ELSE walk_cursor_stuck(self_identity, now, invoker, capability, Tail(proofs),
                                current_issuer_target)

check_invocation_from_cursor_stuck(self_identity, now, invoker, capability, proofs) ==
    walk_cursor_stuck(self_identity, now, invoker, capability, proofs, self_identity)

\* The loop with the expiry check ahead of the issuer check.
RECURSIVE walk_expiry_first(_, _, _, _, _, _)
walk_expiry_first(self_identity, now, invoker, capability, proofs, current_issuer_target) ==
    IF proofs = << >>
    THEN IF invoker = current_issuer_target THEN "Ok" ELSE "WrongInvoker"
    ELSE LET proof == Head(proofs) IN
         IF ~is_valid_at(proof.payload.valid_until, now) THEN "Expired"
         ELSE IF proof.payload.issuer # current_issuer_target THEN "IssuerMismatch"
         ELSE IF capability_issuer(proof) # self_identity THEN "MissingDelegation"
         ELSE IF ~permits(proof.payload.capability, capability) THEN "NotPermitted"
         ELSE walk_expiry_first(self_identity, now, invoker, capability, Tail(proofs),
                                proof.payload.audience)

check_invocation_from_expiry_first(self_identity, now, invoker, capability, proofs) ==
    walk_expiry_first(self_identity, now, invoker, capability, proofs, self_identity)

\* Authorizer::check_invocation_from; now is the SystemTime::now() it reads.
check_invocation_from(self_identity, now, invoker, capability, proofs) ==
    walk(self_identity, now, invoker, capability, proofs, self_identity)

----------------------------------------------------------------------------
(* Inputs *)

Origins == {Issuer} \cup {Delegation(k) : k \in Keys}
Expiries == {Never} \cup {At(t) : t \in 0..MaxSecs}
Nonces == {0, 1}

\* Values a changed plain byte can take.
ByteValues == {0, 1, 2, 3, KeyLenPrefix} \cup (0..MaxSecs)

\* Signature halves that are no signature of the message at hand.
StrayS == {[s |-> [signer |-> k, R |-> 0, msg |-> DST]] : k \in Keys \cup {"nobody"}}

\* What a unit becomes when one of its bytes is changed: a unit of the same width.
Changed(u) ==
    IF "b" \in DOMAIN u THEN {[b |-> v] : v \in ByteValues \ {u.b}}
    ELSE IF "key" \in DOMAIN u THEN {[key |-> k] : k \in (Keys \cup {BadPoint}) \ {u.key}}
    ELSE IF "R" \in DOMAIN u THEN {[R |-> n] : n \in Nonces \ {u.R}}
    ELSE StrayS \ {u}

TrailingUnits == {[b |-> 0], [R |-> 1]}

RECURSIVE SeqsUpTo(_, _)
SeqsUpTo(S, n) ==
    IF n = 0 THEN {<< >>}
    ELSE LET shorter == SeqsUpTo(S, n - 1)
         IN  shorter \cup {Append(q, x) : q \in {t \in shorter : Len(t) = n - 1}, x \in S}

----------------------------------------------------------------------------
(* The codec scenario: build and sign a token, put it on the wire, let the *)
(* wire be altered, read it back.                                           *)

\* how the wire was altered, where, and whether the version byte was changed too
Step(step, how, pos) == [step |-> step, how |-> how, pos |-> pos, version |-> FALSE]

InitCodec ==
    /\ clock = 0
    /\ identity = "service"
    /\ proof_chain = << >>
    /\ made = << >>
    /\ call = None
    /\ rcan = None
    /\ bytes = << >>
    /\ decoded = None
    /\ phase = Step("new", "intact", 0)

\* Rcan::issuing_builder(..).sign(valid_until)
IssueToken(issuer, audience, capability, valid_until) ==
    /\ phase.step = "new"
    /\ rcan' = sign(issuing_builder(issuer, audience, capability), valid_until)
    /\ phase' = Step("signed", "intact", 0)
    /\ UNCHANGED <<clock, identity, proof_chain, made, call, bytes, decoded>>

\* Rcan::delegating_builder(..).sign(valid_until)
DelegateToken(issuer, audience, owner, capability, valid_until) ==
    /\ phase.step = "new"
    /\ rcan' = sign(delegating_builder(issuer, audience, owner, capability), valid_until)
    /\ phase' = Step("signed", "intact", 0)
    /\ UNCHANGED <<clock, identity, proof_chain, made, call, bytes, decoded>>

EncodeToken ==
    /\ phase.step = "signed"
    /\ bytes' = encode(rcan)
    /\ phase' = Step("wire", "intact", 0)
    /\ UNCHANGED <<clock, identity, proof_chain, made, call, rcan, decoded>>

\* One byte inside the encoded payload or the signature is changed.
ChangeByte(i, u) ==
    /\ phase = Step("wire", "intact", 0)
    /\ i \in 2..Len(bytes)
    /\ u \in Changed(bytes[i])
    /\ bytes' = [bytes EXCEPT ![i] = u]
    /\ phase' = Step("wire", "byte", i)
    /\ UNCHANGED <<clock, identity, proof_chain, made, call, rcan, decoded>>

ChangeVersion(v) ==
    /\ phase.step = "wire"
    /\ ~phase.version
    /\ bytes # << >>
    /\ v # VERSION
    /\ bytes' = [bytes EXCEPT ![1] = [b |-> v]]
    /\ phase' = [phase EXCEPT !.version = TRUE]
    /\ UNCHANGED <<clock, identity, proof_chain, made, call, rcan, decoded>>

Truncate(n) ==
    /\ phase = Step("wire", "intact", 0)
    /\ n < Len(bytes)
    /\ bytes' = SubSeq(bytes, 1, n)
    /\ phase' = Step("wire", "cut", n)
    /\ UNCHANGED <<clock, identity, proof_chain, made, call, rcan, decoded>>

AppendTrailing(extra) ==
    /\ phase = Step("wire", "intact", 0)
    /\ extra # << >>
    /\ bytes' = bytes \o extra
    /\ phase' = Step("wire", "trailing", Len(bytes) + 1)
    /\ UNCHANGED <<clock, identity, proof_chain, made, call, rcan, decoded>>

\* The holder of the issuer's signing key signs, with a nonce commitment of
\* its choice, the payload followed by the first half of the signature, and
\* sends payload, signature and one more 32-byte unit.
SendExtended(r, x) ==
    /\ phase.step = "signed"
    /\ LET body == EncodePayload(rcan.payload)
           sig == SignWith(rcan.payload.issuer, r, DST \o body \o << [R |-> r] >>)
       IN  bytes' = << [b |-> VERSION] >> \o body \o sig \o << x >>
    /\ phase' = Step("wire", "extended", 0)
    /\ UNCHANGED <<clock, identity, proof_chain, made, call, rcan, decoded>>

DecodeBytes ==
    /\ phase.step = "wire"
    /\ decoded' = decode(bytes)
    /\ phase' = [phase EXCEPT !.step = "decoded"]
    /\ UNCHANGED <<clock, identity, proof_chain, made, call, rcan, bytes>>

\* Rcan derives Deserialize: postcard::from_bytes::<Rcan<Rpc>>(&bytes[1..]).
DeserializeBytes ==
    /\ phase.step = "wire"
    /\ bytes # << >>
    /\ LET parsed == from_bytes(Tail(bytes))
       IN  decoded' = IF parsed.ok THEN Ok(parsed.val) ELSE Err("Decoding")
    /\ phase' = [phase EXCEPT !.step = "deserialized"]
    /\ UNCHANGED <<clock, identity, proof_chain, made, call, rcan, bytes>>

NextCodec ==
    \/ \E i \in Keys, a \in Keys, c \in Rpc, e \in Expiries : IssueToken(i, a, c, e)
    \/ \E i \in Keys, a \in Keys, o \in Keys, c \in Rpc, e \in Expiries :
           DelegateToken(i, a, o, c, e)
    \/ EncodeToken
    \/ \E i \in 2..Len(bytes) : \E u \in Changed(bytes[i]) : ChangeByte(i, u)
    \/ \E v \in {0, 2} : ChangeVersion(v)
    \/ \E n \in 0..Len(bytes) : Truncate(n)
    \/ \E extra \in SeqsUpTo(TrailingUnits, MaxTrailing) : AppendTrailing(extra)
    \/ \E r \in Nonces, x \in TrailingUnits : SendExtended(r, x)
    \/ DecodeBytes
    \/ DeserializeBytes

SpecCodec == InitCodec /\ [][NextCodec]_vars

----------------------------------------------------------------------------
(* The invocation scenario: proofs are collected into a chain, the clock   *)
(* runs, the authorizer is asked.                                           *)

\* The proofs presented: every payload over two identities, the capabilities
\* of the test scenario and two expiries, signed by its issuer.
ChainKeys == {"service", "alice"}
ChainOrigins == {Issuer} \cup {Delegation(k) : k \in ChainKeys}
ChainRpc == {"Read", "All"}
ChainExpiries == {Never, At(0)}
Requests == {"Read", "ReadWrite"}

Tokens ==
    {sign([issuer |-> i, audience |-> a, capability_origin |-> o, capability |-> c], e) :
        i \in ChainKeys, a \in ChainKeys, o \in ChainOrigins, c \in ChainRpc,
        e \in ChainExpiries}

InitCheck ==
    /\ clock = 0
    /\ identity = "service"
    /\ proof_chain = << >>
    /\ made = << >>
    /\ call = None
    /\ rcan = None
    /\ bytes = << >>
    /\ decoded = None
    /\ phase = Step("chain", "intact", 0)

Present(proof) ==
    /\ call = None
    /\ Len(proof_chain) < MaxChain
    /\ proof_chain' = Append(proof_chain, proof)
    /\ UNCHANGED <<clock, identity, made, call, rcan, bytes, decoded, phase>>

Tick ==
    /\ call = None
    /\ clock < TicksPerSec
    /\ clock' = clock + 1
    /\ UNCHANGED <<identity, proof_chain, made, call, rcan, bytes, decoded, phase>>

Invoke(invoker, capability) ==
    /\ call = None
    /\ call' = [invoker |-> invoker, capability |-> capability, now |-> clock,
                result |-> check_invocation_from(identity, clock, invoker,
                                                 capability, proof_chain)]
    /\ UNCHANGED <<clock, identity, proof_chain, made, rcan, bytes, decoded, phase>>

NextCheck ==
    \/ \E proof \in Tokens : Present(proof)
    \/ Tick
    \/ \E invoker \in ChainKeys, capability \in Requests : Invoke(invoker, capability)

SpecCheck == InitCheck /\ [][NextCheck]_vars

----------------------------------------------------------------------------
(* The custody scenario: whoever holds a signing key signs what it likes,  *)
(* naming any issuer; the receiver obtains tokens from the builder, from    *)
(* Rcan::decode or from the derived Deserialize, and presents them.         *)

CustodyPayloads ==
    {Payload(i, a, o, "Read", Never) :
        i \in Keys, a \in Keys, o \in {Issuer, Delegation("service")}}

\* The signers of bytes that are deserialized without Rcan::decode.
Forger == "bob"

\* Token bytes naming payload p, with a signature made by signer.
SignedBytes(signer, p) ==
    << [b |-> VERSION] >> \o EncodePayload(p) \o Sign(signer, DST \o EncodePayload(p))

Made(how, signer, at) == [how |-> how, signer |-> signer, at |-> at]

InitCustody ==
    /\ clock = 0
    /\ identity = "service"
    /\ proof_chain = << >>
    /\ made = << >>
    /\ call = None
    /\ rcan = None
    /\ bytes = << >>
    /\ decoded = None
    /\ phase = Step("custody", "intact", 0)

\* A key holder builds and signs a token of its own.
SignProof(p) ==
    /\ call = None
    /\ Len(proof_chain) < MaxChain
    /\ proof_chain' = Append(proof_chain,
           sign([issuer |-> p.issuer, audience |-> p.audience,
                 capability_origin |-> p.capability_origin,
                 capability |-> p.capability], p.valid_until))
    /\ made' = Append(made, Made("sign", p.issuer, clock))
    /\ UNCHANGED <<clock, identity, call, rcan, bytes, decoded, phase>>

\* Token bytes naming payload p that signer makes to be read with what follows
\* the token: the signature is over the payload and its own first half.
ExtendedBytes(signer, p) ==
    << [b |-> VERSION] >> \o EncodePayload(p)
        \o SignWith(signer, 1, DST \o EncodePayload(p) \o << [R |-> 1] >>)
        \o << [R |-> 1] >>

\* Bytes made by signer arrive and go through Rcan::decode.
DecodeProof(signer, p, extended) ==
    /\ call = None
    /\ Len(proof_chain) < MaxChain
    /\ LET got == decode(IF extended THEN ExtendedBytes(signer, p)
                                      ELSE SignedBytes(signer, p))
       IN  /\ got.tag = "Ok"
           /\ proof_chain' = Append(proof_chain, got.rcan)
    /\ made' = Append(made, Made("decode", signer, clock))
    /\ UNCHANGED <<clock, identity, call, rcan, bytes, decoded, phase>>

\* Bytes signed by signer arrive and go through postcard::from_bytes alone.
DeserializeProof(signer, p) ==
    /\ call = None
    /\ Len(proof_chain) < MaxChain
    /\ LET got == from_bytes(Tail(SignedBytes(signer, p)))
       IN  /\ got.ok
           /\ proof_chain' = Append(proof_chain, got.val)
    /\ made' = Append(made, Made("deserialize", signer, clock))
    /\ UNCHANGED <<clock, identity, call, rcan, bytes, decoded, phase>>

InvokeCustody(invoker) ==
    /\ call = None
    /\ call' = [invoker |-> invoker, capability |-> "Read", now |-> clock,
                result |-> check_invocation_from(identity, clock, invoker, "Read",
                                                 proof_chain)]
    /\ UNCHANGED <<clock, identity, proof_chain, made, rcan, bytes, decoded, phase>>

NextCustody ==
    \/ \E p \in CustodyPayloads : SignProof(p)
    \/ \E signer \in Keys, p \in CustodyPayloads, extended \in BOOLEAN :
           DecodeProof(signer, p, extended)
    \/ \E p \in CustodyPayloads : \E signer \in {p.issuer, Forger} :
           DeserializeProof(signer, p)
    \/ \E invoker \in Keys : InvokeCustody(invoker)

SpecCustody == InitCustody /\ [][NextCustody]_vars

----------------------------------------------------------------------------
(* The lifetime scenario of the test: the service grants All to alice,     *)
(* alice delegates Read to bob, each whenever and for as long as it likes;  *)
(* the clock runs and the service is asked again and again.                 *)

Lifetimes(now) == {Never} \cup {valid_for(now, d) : d \in 0..MaxDuration}

IsGrant(proof) == proof.payload.capability_origin.tag = "Issuer"

InitLifetime ==
    /\ clock = 0
    /\ identity = "service"
    /\ proof_chain = << >>
    /\ made = << >>
    /\ call = None
    /\ rcan = None
    /\ bytes = << >>
    /\ decoded = None
    /\ phase = Step("lifetime", "intact", 0)

TickLifetime ==
    /\ clock < MaxClock
    /\ clock' = clock + 1
    /\ UNCHANGED <<identity, proof_chain, made, call, rcan, bytes, decoded, phase>>

\* A grant is at the head of the chain presented.
HadGrant == proof_chain # << >> /\ IsGrant(proof_chain[1])

\* The service issues a grant to alice; it takes the place of the one presented
\* so far.  It is a renewal when that one has expired.
Grant(valid_until) ==
    /\ proof_chain' = << sign(issuing_builder("service", "alice", "All"), valid_until) >>
                          \o (IF HadGrant THEN Tail(proof_chain) ELSE proof_chain)
    /\ made' = << Made(IF HadGrant /\ ~is_valid_at(proof_chain[1].payload.valid_until, clock)
                       THEN "renewed" ELSE "sign",
                       "service", clock) >>
                   \o (IF HadGrant THEN Tail(made) ELSE made)
    /\ call' = None
    /\ UNCHANGED <<clock, identity, rcan, bytes, decoded, phase>>

\* alice delegates to bob, naming the service as owner; no grant is asked for.
Delegate(valid_until) ==
    /\ \A i \in 1..Len(proof_chain) : IsGrant(proof_chain[i])
    /\ proof_chain' = Append(proof_chain,
           sign(delegating_builder("alice", "bob", "service", "Read"), valid_until))
    /\ made' = Append(made, Made("sign", "alice", clock))
    /\ call' = None
    /\ UNCHANGED <<clock, identity, rcan, bytes, decoded, phase>>

InvokeLifetime(invoker) ==
    /\ call' = [invoker |-> invoker, capability |-> "Read", now |-> clock,
                result |-> check_invocation_from(identity, clock, invoker, "Read",
                                                 proof_chain)]
    /\ UNCHANGED <<clock, identity, proof_chain, made, rcan, bytes, decoded, phase>>

NextLifetime ==
    \/ TickLifetime
    \/ \E e \in Lifetimes(clock) : Grant(e)
    \/ \E e \in Lifetimes(clock) : Delegate(e)
    \/ \E invoker \in Keys : InvokeLifetime(invoker)

SpecLifetime == InitLifetime /\ [][NextLifetime]_vars

----------------------------------------------------------------------------
(* Claims about the codec *)

\* The signature of token t is a signature by its issuer over DST || codec(payload).
SignatureValid(t) ==
    verify_strict(t.payload.issuer, DST \o EncodePayload(t.payload), t.signature)

\* The bytes decode checks the signature against: DST, then the input without
\* its version byte and without its last SIGNATURE_LENGTH units.
SignedRange(bs) == DST \o SubSeq(bs, 2, Len(bs) - SIGNATURE_LENGTH)

WellFormed(bs) == from_bytes(Tail(bs)).ok

Intact == phase.how = "intact" /\ ~phase.version

\* C2: every token value carries a valid signature by payload.issuer over
\* DST || codec(payload): the one the builder signed, every one decode returns,
\* and every one obtained in any other way.
C2_TokenInvariant ==
    /\ rcan # None => SignatureValid(rcan)
    /\ phase.step \in {"decoded", "deserialized"} /\ decoded.tag = "Ok"
           => SignatureValid(decoded.rcan)

\* C4 as stated: changing one byte inside the payload or the signature of an
\* encoded token makes decode fail with the signature-verification error.
C4_TamperIsSignatureError ==
    phase.step = "decoded" /\ phase.how = "byte" /\ ~phase.version
        => decoded = Err("Signature")

\* C4 amended: changing one byte inside the payload or the signature makes
\* decode fail; the failure is the signature error when the byte is inside the
\* signature or the changed bytes still parse as a token, and the
\* payload-decoding error otherwise.
C4_TamperRejected ==
    phase.step = "decoded" /\ phase.how = "byte" /\ ~phase.version
        => /\ decoded.tag = "Err"
           /\ decoded.error \in {"Decoding", "Signature"}
           /\ decoded.error = "Signature"
                  <=> \/ phase.pos > Len(bytes) - SIGNATURE_LENGTH
                      \/ WellFormed(bytes)

C4_Witness ==
    /\ phase.step = "decoded" /\ phase.how = "byte" /\ ~phase.version
    /\ phase.pos <= Len(bytes) - SIGNATURE_LENGTH
    /\ WellFormed(bytes)
    /\ decoded = Err("Signature")

\* C5: decode(encode(t)) = Ok(t) for every token t the builder signs, and the
\* bytes the builder signed are the bytes decode rebuilds from the wire form.
C5_RoundTrip ==
    phase.step = "decoded" /\ Intact
        => /\ decoded = Ok(rcan)
           /\ verify_strict(rcan.payload.issuer, SignedRange(bytes), rcan.signature)
           /\ SignedRange(bytes) = DST \o EncodePayload(rcan.payload)

C5_Witness ==
    /\ phase.step = "decoded" /\ Intact
    /\ decoded.tag = "Ok"
    /\ decoded.rcan.payload.capability_origin.tag = "Delegation"
    /\ decoded.rcan.payload.valid_until.tag = "At"

\* C6: decode rejects, without a panic and without a token, empty input, a
\* wrong version byte, bytes that are no well-formed token (truncated ones
\* among them) and a signature that does not verify; each with its own error,
\* looked for in that order.
C6_DecodeRejects ==
    phase.step = "decoded"
        => /\ decoded.tag # "Panic"
           /\ decoded =
                IF bytes = << >> THEN Err("Empty")
                ELSE IF bytes[1] # [b |-> VERSION] THEN Err("Version")
                ELSE IF ~WellFormed(bytes) THEN Err("Decoding")
                ELSE IF ~verify_strict(from_bytes(Tail(bytes)).val.payload.issuer,
                                       SignedRange(bytes),
                                       from_bytes(Tail(bytes)).val.signature)
                     THEN Err("Signature")
                ELSE Ok(from_bytes(Tail(bytes)).val)
           /\ phase.how = "cut" /\ bytes # << >> /\ ~phase.version
                  => decoded = Err("Decoding")

\* A wrong version byte in front of bytes that do not parse either.
C6_Witness ==
    /\ phase.step = "decoded"
    /\ phase.version /\ phase.how \in {"byte", "cut"}
    /\ ~WellFormed(bytes)
    /\ decoded = Err("Version")

----------------------------------------------------------------------------
(* Claims about check_invocation_from *)

\* The issuer expected of proof i: the authorizer for the first proof, the
\* audience of the proof before it afterwards; Cursor(Len + 1) is the final one.
Cursor(i) == IF i = 1 THEN identity ELSE proof_chain[i - 1].payload.audience

Root(p) ==
    IF p.capability_origin.tag = "Issuer" THEN p.issuer ELSE p.capability_origin.root

Unexpired(p) == p.valid_until.tag = "Never" \/ p.valid_until.at >= as_secs(call.now)

\* The three checks of a proof that do not depend on its place in the chain.
Sound(i) ==
    LET p == proof_chain[i].payload
    IN  /\ Unexpired(p)
        /\ Root(p) = identity
        /\ permits(p.capability, call.capability)

Linked(i) == proof_chain[i].payload.issuer = Cursor(i)

Links == 1..Len(proof_chain)

\* C1: check_invocation_from returns Ok exactly when every proof is issued by
\* the cursor at its place, is valid at the call's now, has the authorizer as
\* its capability issuer and permits the capability, and the invoker is the
\* final cursor; otherwise it returns an error.
C1_OkIffChainHolds ==
    call # None
        => /\ call.result = "Ok"
                <=> /\ \A i \in Links : Linked(i) /\ Sound(i)
                    /\ call.invoker = Cursor(Len(proof_chain) + 1)
           /\ call.result \in {"Ok", "IssuerMismatch", "Expired", "MissingDelegation",
                               "NotPermitted", "WrongInvoker"}
           /\ proof_chain = << >> => (call.result = "Ok" <=> call.invoker = identity)

C1_Witness ==
    /\ call # None
    /\ call.result = "Ok"
    /\ Len(proof_chain) = 2
    /\ proof_chain[1].payload.audience # identity
    /\ proof_chain[2].payload.capability_origin.tag = "Delegation"
    /\ proof_chain[2].payload.capability # proof_chain[1].payload.capability

Broken == \E i \in Links : ~Linked(i)
FirstBroken == CHOOSE i \in Links : ~Linked(i) /\ \A k \in 1..(i - 1) : Linked(k)

\* C3 as stated: a chain in which some proof's issuer differs from the cursor
\* at its place fails with the issuer-mismatch error.
C3_BrokenLinkIsIssuerMismatch ==
    call # None /\ Broken => call.result = "IssuerMismatch"

\* C3 amended: such a chain fails; with the issuer-mismatch error exactly when
\* every proof before the first broken link is unexpired, rooted at the
\* authorizer and permits the capability (so for every reordering of a valid
\* chain), and otherwise with the error of a check an earlier proof failed.
C3_BrokenLinkFails ==
    call # None /\ Broken
        => /\ call.result \in {"IssuerMismatch", "Expired", "MissingDelegation",
                               "NotPermitted"}
           /\ call.result = "IssuerMismatch"
                <=> \A k \in 1..(FirstBroken - 1) : Sound(k)
           /\ (\A i \in Links : Sound(i)) => call.result = "IssuerMismatch"

C3_Witness ==
    /\ call # None
    /\ Len(proof_chain) = 2
    /\ Linked(1) /\ Sound(1) /\ ~Linked(2)
    /\ proof_chain[2].payload.issuer = identity
    /\ call.result = "IssuerMismatch"

----------------------------------------------------------------------------
(* Claims about custody *)

\* Every presented token came from the builder or from Rcan::decode.
Verified == \A i \in Links : made[i].how \in {"sign", "decode"}

\* The identities the root, or one already named, named as audience in a
\* token it signed itself.
RECURSIVE NamedFrom(_)
NamedFrom(S) ==
    LET more == S \cup {proof_chain[i].payload.audience :
                           i \in {j \in Links : made[j].signer \in S}}
    IN  IF more = S THEN S ELSE NamedFrom(more)

\* C8: with tokens from the builder or from decode only, a successful check
\* of a non-empty chain means the holder of the authorizer's key signed the
\* first token and each later token was signed by the holder of the key the
\* token before it names as audience; the invoker is then the root or one the
\* root or a transitive delegate named as audience.
C8_ChainOfCustody ==
    call # None /\ call.result = "Ok" /\ proof_chain # << >> /\ Verified
        => /\ \A i \in Links : made[i].signer = Cursor(i)
           /\ call.invoker \in NamedFrom({identity})

C8_Witness ==
    /\ call # None /\ call.result = "Ok" /\ Verified
    /\ Len(proof_chain) = 2
    /\ made[1].how = "decode" /\ made[2].how = "decode"
    /\ call.invoker = Forger

----------------------------------------------------------------------------
(* Claims about lifetimes *)

\* The times looked at: the clock's range and what valid_for can reach past it.
Times == 0..(MaxClock + MaxDuration + 2 * TicksPerSec)

\* C7: At(T) is valid at time t exactly when T >= floor(t), so at T and not
\* at T + 1; Never is valid at every t; a token signed with valid_for(d) at t0
\* is valid at t0 and not at t0 + d + 1 second.
C7_ExpiryBoundary ==
    \A i \in Links :
        LET e == proof_chain[i].payload.valid_until
            t0 == made[i].at
        IN  /\ e.tag = "Never" => \A t \in Times : is_valid_at(e, t)
            /\ e.tag = "At" =>
                 /\ \A t \in Times : is_valid_at(e, t) <=> t < (e.at + 1) * TicksPerSec
                 /\ is_valid_at(e, e.at * TicksPerSec)
                 /\ ~is_valid_at(e, (e.at + 1) * TicksPerSec)
            /\ \A d \in 0..MaxDuration :
                 e = valid_for(t0, d)
                     => is_valid_at(e, t0) /\ ~is_valid_at(e, t0 + d + TicksPerSec)

\* A grant made for a fractional duration is used within its last second.
C7_Witness ==
    /\ call # None /\ call.result = "Ok"
    /\ Len(proof_chain) = 2
    /\ proof_chain[1].payload.valid_until.tag = "At"
    /\ proof_chain[1].payload.valid_until = valid_for(made[1].at, 1)
    /\ made[1].at % TicksPerSec = 1
    /\ call.now = proof_chain[1].payload.valid_until.at * TicksPerSec + 1

Again(t) ==
    check_invocation_from(identity, t, call.invoker, call.capability, proof_chain)

\* C9: a check succeeds at now only if now, in whole seconds, is at most the
\* timestamp of every proof that has one; a call that succeeds would succeed
\* at every earlier time, and after a call that fails for an expired proof
\* every later call with the same arguments fails.
C9_Lifetime ==
    call # None
        => /\ call.result = "Ok"
                => /\ \A i \in Links :
                        proof_chain[i].payload.valid_until.tag = "At"
                            => as_secs(call.now) <= proof_chain[i].payload.valid_until.at
                   /\ \A t \in 0..call.now : Again(t) = "Ok"
           /\ call.result = "Expired"
                => \A t \in call.now..MaxClock : Again(t) # "Ok"

\* The grant has expired, the delegation never does: bob is turned away.
C9_Witness ==
    /\ call # None /\ call.result = "Expired" /\ call.invoker = "bob"
    /\ Len(proof_chain) = 2
    /\ proof_chain[1].payload.valid_until.tag = "At"
    /\ proof_chain[2].payload.valid_until.tag = "Never"
    /\ Again(proof_chain[1].payload.valid_until.at * TicksPerSec) = "Ok"

\* C10: a delegation signed by X with origin Delegation(R) is accepted right
\* after any R-rooted token that is valid now, names X as audience and
\* permits the request, whenever either was signed; so a grant issued after
\* the first one expired makes the old delegation authorize again.
C10_NotBoundToParent ==
    call # None /\ Len(proof_chain) = 2
        => LET u == proof_chain[1].payload
               d == proof_chain[2].payload
           IN  /\ u.issuer = identity /\ Root(u) = identity
               /\ Unexpired(u) /\ permits(u.capability, call.capability)
               /\ d.issuer = u.audience
               /\ d.capability_origin = Delegation(identity)
               /\ Unexpired(d) /\ permits(d.capability, call.capability)
               /\ call.invoker = d.audience
               => call.result = "Ok"

C10_Witness ==
    /\ call # None /\ call.result = "Ok" /\ Len(proof_chain) = 2
    /\ made[1].how = "renewed"
    /\ made[1].at > made[2].at
    /\ proof_chain[2].payload.valid_until.tag = "At"

====
